---- MODULE Spec2Model ----
(***************************************************************************)
(* Model of the concurrent pagination engine of src/main.go:               *)
(* DataFetcher.FetchAllDataMultithread (priming call, page plan, task      *)
(* population goroutine, worker goroutines, result sink goroutine) and the *)
(* part of main that calls it.                                             *)
(*                                                                         *)
(* Go copies a Payload struct by value, but its Blocks field is a map and  *)
(* the Attr of the "result" block is a map[string]interface{}: both are    *)
(* references.  `payload := basePayload` therefore shares one "result"     *)
(* attribute map between the caller's template, the priming call and every *)
(* worker.  That map is the variable attr below.                           *)
(***************************************************************************)
EXTENDS Integers, Sequences, FiniteSets, Bags, TLC

\* ------------------------------------------------------------------ bounds
MaxCount == 3
MaxPageSize == 2
MaxPages == 2
MaxWorkers == 2
\* cells per record in the sink specification of the cell coercion
MaxCells == 3

\* ------------------------------------------------------- program constants
\* buildPayload: "limit": 10 and "offset": 10 of the "result" block
BaseLimit == 10
BaseOffset == 10

VARIABLES
    serverCount,    \* the number of rows the remote dataset holds
    pageSize,       \* df.pageSize
    maxWorkers,     \* df.maxWorkers
    cancelled,      \* ctx is done (cancel() was called)
    attr,           \* basePayload.Blocks["result"].Attr, shared by reference
    ctl,            \* position of FetchAllDataMultithread / main
    totalCount,     \* local totalCount
    totalPages,     \* local totalPages
    fileCreated,    \* os.Create(csvFilename) succeeded
    tasks,          \* buffered channel tasks (its queued descriptors)
    tasksClosed,    \* close(tasks) was executed
    page,           \* loop variable of the task population goroutine
    popPc,          \* position of the task population goroutine (idle, run,
                    \* stopped: returned on ctx.Done, closed: loop ran to its end)
    results,        \* buffered channel results
    resultsClosed,  \* close(results) was executed
    pool,           \* the worker goroutines: bag of [pc, task, req, res]
    sinkPc,         \* position of the result handling goroutine
    written,        \* the data rows written to the CSV file, in order
    totalRows,      \* local totalRows
    failLines,      \* number of "page failed" lines the sink printed
    retRows,        \* value returned by FetchAllDataMultithread
    summary,        \* which final summary line was printed
    report,         \* which final report main printed
    primeRes,       \* history: how the priming fetch ended
    countReads,     \* history: how often totalCount was read from a response
    fatal,          \* the Go runtime aborted the process (concurrent map access)
    enq,            \* history: descriptors sent on tasks, in order
    pulls,          \* history: how often each page number was received by a worker
    calls,          \* history: fetchData calls per page number
    sent,           \* history: worker requests sent per offset
    dropped,        \* history: page numbers dropped at the cancellation check
    outcome,        \* history: how the fetch of each page number ended
    emitRows        \* history: rows in the successful PageResults sent on results

vars == <<serverCount, pageSize, maxWorkers, cancelled, attr, ctl, totalCount,
          totalPages, fileCreated, tasks, tasksClosed, page, popPc, results,
          resultsClosed, pool, sinkPc, written, totalRows,
          failLines, retRows, summary, report, primeRes, countReads, fatal,
          enq, pulls,
          calls, sent, dropped, outcome, emitRows>>

\* ----------------------------------------------------------------- helpers
Min(a, b) == IF a < b THEN a ELSE b

\* Go's integer division truncates toward zero (operands here are >= 0)
GoDiv(a, b) == a \div b

PageNums == 1 .. MaxPages
Offsets == 0 .. (MaxPages * MaxPageSize + BaseOffset)

NoTask == [pageNum |-> 0, offset |-> 0]
NoReq == [limit |-> 0, offset |-> 0]
NoRes == [PageNum |-> 0, Rows |-> <<>>, Err |-> FALSE]

\* a worker goroutine as `go func() {...}()` starts it
NewWorker == [pc |-> "recv", task |-> NoTask, req |-> NoReq, res |-> NoRes]

\* The remote endpoint: rows o .. min(o+limit, count)-1 for a request with
\* offset o; a row is identified by its index in the dataset.
ServerRows(count, limit, offset) ==
    [i \in 1 .. (IF Min(offset + limit, count) > offset
                 THEN Min(offset + limit, count) - offset ELSE 0)
        |-> offset + i - 1]


\* ------------------------------------------------------- sequential parts
\* mutant: the page count rounded down
TotalPagesFloor(tc, ps) == GoDiv(tc, ps)

\* totalPages := (totalCount + df.pageSize - 1) / df.pageSize
TotalPages(tc, ps) == GoDiv(tc + ps - 1, ps)

\* the descriptor the population loop builds for loop index p
Descriptor(p, ps) == [pageNum |-> p + 1, offset |-> p * ps]

\* mutant: a receive that leaves the descriptor in the buffer
DequeuePeek(q) == q

\* what a receive from the channel leaves in its buffer
Dequeue(q) == Tail(q)

\* mutant: a close that discards the buffered descriptors
CloseTasksDiscarding(q) == <<>>

\* what close(tasks) leaves in the channel's buffer
CloseTasks(q) == q

\* the local states of the started workers
Running == BagToSet(pool)

\* the process is running: not aborted by the runtime, main has not returned
Alive == ~fatal /\ ctl # "exited"

Init ==
    /\ serverCount \in 0 .. MaxCount
    /\ pageSize \in 1 .. MaxPageSize
    /\ maxWorkers \in 1 .. MaxWorkers
    /\ serverCount <= MaxPages * pageSize
    /\ cancelled = FALSE
    /\ attr = [limit |-> BaseLimit, offset |-> BaseOffset]
    /\ ctl = "prime"
    /\ totalCount = 0
    /\ totalPages = 0
    /\ fileCreated = FALSE
    /\ tasks = <<>>
    /\ tasksClosed = FALSE
    /\ page = 0
    /\ popPc = "idle"
    /\ results = <<>>
    /\ resultsClosed = FALSE
    /\ pool = EmptyBag
    /\ sinkPc = "idle"
    /\ written = <<>>
    /\ totalRows = 0
    /\ failLines = 0
    /\ retRows = 0
    /\ summary = "none"
    /\ report = "none"
    /\ primeRes = "none"
    /\ countReads = 0
    /\ fatal = FALSE
    /\ enq = <<>>
    /\ pulls = [p \in PageNums |-> 0]
    /\ calls = [p \in PageNums |-> 0]
    /\ sent = [o \in Offsets |-> 0]
    /\ dropped = {}
    /\ outcome = [p \in PageNums |-> "none"]
    /\ emitRows = 0

cfgVars == <<serverCount, pageSize, maxWorkers>>
chanVars == <<tasks, tasksClosed, results, resultsClosed>>
popVars == <<page, popPc, enq>>
sinkVars == <<sinkPc, written, totalRows, failLines>>
histVars == <<pulls, calls, sent, dropped, outcome, emitRows>>
ctlVars == <<ctl, totalCount, totalPages, fileCreated, retRows, summary,
             report, primeRes, countReads>>

\* main's signal goroutine: cancel()
Cancel ==
    /\ Alive
    /\ ~cancelled
    /\ cancelled' = TRUE
    /\ UNCHANGED <<cfgVars, attr, ctlVars, chanVars, popVars, pool,
                   sinkVars, histVars, fatal>>

\* priming payload: payload := basePayload; resultAttr["limit"], ["offset"]
Prime ==
    /\ Alive
    /\ ctl = "prime"
    /\ attr' = [attr EXCEPT !.limit = pageSize, !.offset = 0]
    /\ ctl' = "primeFetch"
    /\ UNCHANGED <<countReads, primeRes, report, cfgVars, cancelled,
                   totalCount, totalPages, fileCreated, retRows, summary,
                   chanVars, popVars, pool, sinkVars, histVars, fatal>>

\* variant: the missing "result" block is not checked, so the zero value of
\* the block (Count 0) is read
PrimeFetchUncheckedBlock(o) ==
    /\ Alive
    /\ ctl = "primeFetch"
    /\ cancelled => o = "err"
    /\ primeRes' = o
    /\ countReads' = IF o = "ok" THEN countReads + 1 ELSE countReads
    /\ IF o = "err"
       THEN /\ totalCount' = totalCount
            /\ ctl' = "failed"
       ELSE /\ totalCount' = IF o = "ok" THEN serverCount ELSE 0
            /\ ctl' = IF totalCount' = 0 THEN "returned" ELSE "plan"
    /\ UNCHANGED <<report, cfgVars, cancelled, attr, totalPages, fileCreated,
                   retRows, summary, chanVars, popVars, pool, sinkVars,
                   histVars, fatal>>

\* variant: a count of 0 is planned like any other count
PrimeFetchNoZeroReturn(o) ==
    /\ Alive
    /\ ctl = "primeFetch"
    /\ cancelled => o = "err"
    /\ primeRes' = o
    /\ countReads' = IF o = "ok" THEN countReads + 1 ELSE countReads
    /\ IF o = "ok"
       THEN /\ totalCount' = serverCount
            /\ ctl' = "plan"
       ELSE /\ totalCount' = totalCount
            /\ ctl' = "failed"
    /\ UNCHANGED <<report, cfgVars, cancelled, attr, totalPages, fileCreated,
                   retRows, summary, chanVars, popVars, pool, sinkVars,
                   histVars, fatal>>

\* the priming fetchData call and the reading of the count
PrimeFetch(o) ==
    /\ Alive
    /\ ctl = "primeFetch"
    /\ cancelled => o = "err"
    /\ primeRes' = o
    /\ countReads' = IF o = "ok" THEN countReads + 1 ELSE countReads
    /\ IF o = "ok"
       THEN /\ totalCount' = serverCount
            /\ ctl' = IF serverCount = 0 THEN "returned" ELSE "plan"
       ELSE /\ totalCount' = totalCount
            /\ ctl' = "failed"
    /\ UNCHANGED <<report, cfgVars, cancelled, attr, totalPages, fileCreated,
                   retRows, summary, chanVars, popVars, pool, sinkVars,
                   histVars, fatal>>

Plan ==
    /\ Alive
    /\ ctl = "plan"
    /\ totalPages' = TotalPages(totalCount, pageSize)
    /\ ctl' = "create"
    /\ UNCHANGED <<countReads, primeRes, report, cfgVars, cancelled, attr,
                   totalCount, fileCreated, retRows, summary, chanVars,
                   popVars, pool, sinkVars, histVars, fatal>>

\* os.Create, BOM and header row
CreateFile(ok) ==
    /\ Alive
    /\ ctl = "create"
    /\ fileCreated' = ok
    /\ ctl' = IF ok THEN "start" ELSE "failed"
    /\ UNCHANGED <<countReads, primeRes, report, cfgVars, cancelled, attr,
                   totalCount, totalPages, retRows, summary, chanVars,
                   popVars, pool, sinkVars, histVars, fatal>>

\* make the channels, start the sink, the populator and the workers
Start ==
    /\ Alive
    /\ ctl = "start"
    /\ sinkPc' = "run"
    /\ popPc' = "run"
    /\ pool' = [r \in {NewWorker} |-> maxWorkers]
    /\ ctl' = "wait"
    /\ UNCHANGED <<countReads, primeRes, report, cfgVars, cancelled, attr,
                   totalCount, totalPages, fileCreated, retRows, summary,
                   chanVars, page, enq, written, totalRows, failLines,
                   histVars, fatal>>

\* wg.Wait(); close(results)
CloseResults ==
    /\ Alive
    /\ ctl = "wait"
    /\ \A r \in Running : r.pc = "exited"
    /\ resultsClosed' = TRUE
    /\ ctl' = "waitSink"
    /\ UNCHANGED <<countReads, primeRes, report, cfgVars, cancelled, attr,
                   totalCount, totalPages, fileCreated, retRows, summary,
                   tasks, tasksClosed, results, popVars, pool, sinkVars,
                   histVars, fatal>>

\* variant: writeWg.Wait() is left out
ReturnWithoutSinkWait ==
    /\ Alive
    /\ ctl = "waitSink"
    /\ summary' = IF cancelled THEN "interrupted" ELSE "completed"
    /\ retRows' = totalRows
    /\ ctl' = "returned"
    /\ UNCHANGED <<countReads, primeRes, report, cfgVars, cancelled, attr,
                   totalCount, totalPages, fileCreated, chanVars, popVars,
                   pool, sinkVars, histVars, fatal>>

\* variant: a failed page makes the function return an error
ReturnErrorOnFailedPage ==
    /\ Alive
    /\ ctl = "waitSink"
    /\ sinkPc = "done"
    /\ IF failLines > 0
       THEN /\ ctl' = "failed"
            /\ UNCHANGED <<summary, retRows>>
       ELSE /\ summary' = IF cancelled THEN "interrupted" ELSE "completed"
            /\ retRows' = totalRows
            /\ ctl' = "returned"
    /\ UNCHANGED <<countReads, primeRes, report, cfgVars, cancelled, attr,
                   totalCount, totalPages, fileCreated, chanVars, popVars,
                   pool, sinkVars, histVars, fatal>>

\* writeWg.Wait(); the summary line; return totalRows, nil
Return ==
    /\ Alive
    /\ ctl = "waitSink"
    /\ sinkPc = "done"
    /\ summary' = IF cancelled THEN "interrupted" ELSE "completed"
    /\ retRows' = totalRows
    /\ ctl' = "returned"
    /\ UNCHANGED <<countReads, primeRes, report, cfgVars, cancelled, attr,
                   totalCount, totalPages, fileCreated, chanVars, popVars,
                   pool, sinkVars, histVars, fatal>>

\* main after FetchAllDataMultithread: "抓取失败" on an error, else
\* "所有任务完成" when totalRows > 0 and "未能获取任何数据" otherwise; then the
\* process ends
MainExit ==
    /\ Alive
    /\ ctl \in {"returned", "failed"}
    /\ ctl' = "exited"
    /\ report' = IF ctl = "failed" THEN "failed"
                 ELSE IF retRows > 0 THEN "allDone" ELSE "noData"
    /\ UNCHANGED <<countReads, primeRes, cfgVars, cancelled, attr, totalCount,
                   totalPages, fileCreated, retRows, summary, chanVars,
                   popVars, pool, sinkVars, histVars, fatal>>


\* ------------------------------------------------ task population goroutine
\* select case tasks <- descriptor (the buffer holds totalPages, so the send
\* is always ready; select may take it also when ctx is done)
PopSend ==
    /\ Alive
    /\ popPc = "run"
    /\ page < totalPages
    /\ tasks' = Append(tasks, Descriptor(page, pageSize))
    /\ enq' = Append(enq, Descriptor(page, pageSize))
    /\ page' = page + 1
    /\ UNCHANGED <<cfgVars, cancelled, attr, ctlVars, tasksClosed, results,
                   resultsClosed, popPc, pool, sinkVars, histVars, fatal>>

\* variant: the ctx.Done() case closes tasks but does not return
PopCancelNoReturn ==
    /\ Alive
    /\ popPc = "run"
    /\ page < totalPages
    /\ cancelled
    /\ tasks' = CloseTasks(tasks)
    /\ tasksClosed' = TRUE
    /\ popPc' = "run"
    /\ UNCHANGED <<cfgVars, cancelled, attr, ctlVars, results, resultsClosed,
                   page, enq, pool, sinkVars, histVars, fatal>>

\* select case <-ctx.Done(): close(tasks); return
PopCancel ==
    /\ Alive
    /\ popPc = "run"
    /\ page < totalPages
    /\ cancelled
    /\ tasks' = CloseTasks(tasks)
    /\ tasksClosed' = TRUE
    /\ popPc' = "stopped"
    /\ UNCHANGED <<cfgVars, cancelled, attr, ctlVars, results, resultsClosed,
                   page, enq, pool, sinkVars, histVars, fatal>>

\* the loop ran to its end: close(tasks)
PopClose ==
    /\ Alive
    /\ popPc = "run"
    /\ ~(page < totalPages)
    /\ tasks' = CloseTasks(tasks)
    /\ tasksClosed' = TRUE
    /\ popPc' = "closed"
    /\ UNCHANGED <<cfgVars, cancelled, attr, ctlVars, results, resultsClosed,
                   page, enq, pool, sinkVars, histVars, fatal>>

\* --------------------------------------------------------- worker goroutine
\* The workers are anonymous goroutines running one closure, so the pool is
\* the bag of their local states [pc, task, req, res].
Move(b, r, r2) == (b (-) SetToBag({r})) (+) SetToBag({r2})

\* for task := range tasks (a descriptor is ready)
WorkerRecv(r) ==
    /\ Alive
    /\ r.pc = "recv"
    /\ tasks # <<>>
    /\ pool' = Move(pool, r, [r EXCEPT !.pc = "check", !.task = Head(tasks)])
    /\ tasks' = Dequeue(tasks)
    /\ pulls' = [pulls EXCEPT ![Head(tasks).pageNum] = @ + 1]
    /\ UNCHANGED <<cfgVars, cancelled, attr, ctlVars, tasksClosed, results,
                   resultsClosed, popVars, sinkVars, calls, sent, dropped,
                   outcome, emitRows, fatal>>

\* for task := range tasks (the channel is closed and drained); wg.Done()
WorkerExit(r) ==
    /\ Alive
    /\ r.pc = "recv"
    /\ tasks = <<>>
    /\ tasksClosed
    /\ pool' = Move(pool, r, [r EXCEPT !.pc = "exited"])
    /\ UNCHANGED <<cfgVars, cancelled, attr, ctlVars, chanVars, popVars,
                   sinkVars, histVars, fatal>>

\* mutant: the worker goes on to fetch although ctx is done
WorkerCheckIgnoringCancel(r) ==
    /\ Alive
    /\ r.pc = "check"
    /\ pool' = Move(pool, r, [r EXCEPT !.pc = "copy"])
    /\ UNCHANGED <<cfgVars, cancelled, attr, ctlVars, chanVars, popVars,
                   sinkVars, histVars, fatal>>

\* select { case <-ctx.Done(): return; default: }
WorkerCheck(r) ==
    /\ Alive
    /\ r.pc = "check"
    /\ IF cancelled
       THEN /\ pool' = Move(pool, r, [r EXCEPT !.pc = "exited", !.task = NoTask])
            /\ dropped' = dropped \cup {r.task.pageNum}
       ELSE /\ pool' = Move(pool, r, [r EXCEPT !.pc = "copy"])
            /\ dropped' = dropped
    /\ UNCHANGED <<cfgVars, cancelled, attr, ctlVars, chanVars, popVars,
                   sinkVars, pulls, calls, sent, outcome, emitRows, fatal>>

\* payload := basePayload; resultAttr := payload.Blocks["result"].Attr
\* (a read of the shared Blocks map; resultAttr is the shared attribute map)
WorkerCopy(r) ==
    /\ Alive
    /\ r.pc = "copy"
    /\ pool' = Move(pool, r, [r EXCEPT !.pc = "setLimit"])
    /\ UNCHANGED <<cfgVars, cancelled, attr, ctlVars, chanVars, popVars,
                   sinkVars, histVars, fatal>>

\* resultAttr["limit"] = df.pageSize
WorkerSetLimit(r) ==
    /\ Alive
    /\ r.pc = "setLimit"
    /\ attr' = [attr EXCEPT !.limit = pageSize]
    /\ pool' = Move(pool, r, [r EXCEPT !.pc = "setOffset"])
    /\ UNCHANGED <<cfgVars, cancelled, ctlVars, chanVars, popVars, sinkVars,
                   histVars, fatal>>

\* resultAttr["offset"] = task.offset
WorkerSetOffset(r) ==
    /\ Alive
    /\ r.pc = "setOffset"
    /\ attr' = [attr EXCEPT !.offset = r.task.offset]
    /\ pool' = Move(pool, r, [r EXCEPT !.pc = "setBlock"])
    /\ UNCHANGED <<cfgVars, cancelled, ctlVars, chanVars, popVars, sinkVars,
                   histVars, fatal>>

\* block := payload.Blocks["result"]; block.Attr = resultAttr;
\* payload.Blocks["result"] = block  (a write of the shared Blocks map that
\* stores the reference it already held)
WorkerSetBlock(r) ==
    /\ Alive
    /\ r.pc = "setBlock"
    /\ pool' = Move(pool, r, [r EXCEPT !.pc = "send"])
    /\ UNCHANGED <<cfgVars, cancelled, attr, ctlVars, chanVars, popVars,
                   sinkVars, histVars, fatal>>

\* fetchData: json.Marshal(payload) reads the shared maps; client.Do fails
\* at once when ctx is already done
WorkerSend(r) ==
    /\ Alive
    /\ r.pc = "send"
    /\ calls' = [calls EXCEPT ![r.task.pageNum] = @ + 1]
    /\ IF cancelled
       THEN /\ pool' = Move(pool, r,
                  [r EXCEPT !.pc = "emitErr",
                            !.res = [PageNum |-> r.task.pageNum, Rows |-> <<>>,
                                     Err |-> TRUE]])
            /\ outcome' = [outcome EXCEPT ![r.task.pageNum] = "err"]
            /\ sent' = sent
       ELSE /\ pool' = Move(pool, r, [r EXCEPT !.pc = "await", !.req = attr])
            /\ outcome' = outcome
            /\ sent' = [sent EXCEPT ![attr.offset] = @ + 1]
    /\ UNCHANGED <<cfgVars, cancelled, attr, ctlVars, chanVars, popVars,
                   sinkVars, pulls, dropped, emitRows, fatal>>

\* fetchData returns: an error, a response without the "result" block, or
\* the rows of the "result" block
WorkerAwait(r, o) ==
    /\ Alive
    /\ r.pc = "await"
    /\ pool' = Move(pool, r,
          [r EXCEPT !.pc = CASE o = "err" -> "emitErr"
                            [] o = "noblock" -> "emitEmpty"
                            [] OTHER -> "emitOk",
                    !.req = NoReq,
                    !.res = [PageNum |-> r.task.pageNum,
                             Rows |-> IF o = "ok"
                                      THEN ServerRows(serverCount, r.req.limit,
                                                      r.req.offset)
                                      ELSE <<>>,
                             Err |-> (o = "err")]])
    /\ outcome' = [outcome EXCEPT ![r.task.pageNum] = o]
    /\ UNCHANGED <<cfgVars, cancelled, attr, ctlVars, chanVars, popVars,
                   sinkVars, pulls, calls, sent, dropped, emitRows, fatal>>

\* mutant: a failed fetch ends the worker (`return` for `continue`)
WorkerEmitReturnOnError(r) ==
    /\ Alive
    /\ r.pc \in {"emitErr", "emitEmpty", "emitOk"}
    /\ Len(results) < maxWorkers
    /\ results' = Append(results, r.res)
    /\ pool' = Move(pool, r,
          [pc |-> CASE r.pc = "emitOk" -> "sleep"
                    [] r.pc = "emitErr" -> "exited"
                    [] OTHER -> "recv",
           task |-> NoTask, req |-> NoReq, res |-> NoRes])
    /\ emitRows' = emitRows + (IF r.res.Err THEN 0 ELSE Len(r.res.Rows))
    /\ UNCHANGED <<cfgVars, cancelled, attr, ctlVars, tasks, tasksClosed,
                   resultsClosed, popVars, sinkVars, pulls, calls, sent,
                   dropped, outcome, fatal>>

\* results <- PageResult{...}; the error and the missing-block paths
\* `continue`, the success path goes on to time.Sleep.  task, response and
\* rows are locals of the loop body and are dead once the result is sent.
WorkerEmit(r) ==
    /\ Alive
    /\ r.pc \in {"emitErr", "emitEmpty", "emitOk"}
    /\ Len(results) < maxWorkers
    /\ results' = Append(results, r.res)
    /\ pool' = Move(pool, r,
          [pc |-> IF r.pc = "emitOk" THEN "sleep" ELSE "recv",
           task |-> NoTask, req |-> NoReq, res |-> NoRes])
    /\ emitRows' = emitRows + (IF r.res.Err THEN 0 ELSE Len(r.res.Rows))
    /\ UNCHANGED <<cfgVars, cancelled, attr, ctlVars, tasks, tasksClosed,
                   resultsClosed, popVars, sinkVars, pulls, calls, sent,
                   dropped, outcome, fatal>>

\* time.Sleep(df.requestDelay)
WorkerSleep(r) ==
    /\ Alive
    /\ r.pc = "sleep"
    /\ pool' = Move(pool, r, [r EXCEPT !.pc = "recv"])
    /\ UNCHANGED <<cfgVars, cancelled, attr, ctlVars, chanVars, popVars,
                   sinkVars, histVars, fatal>>

\* Unsynchronised accesses of one Go map by two goroutines, at least one a
\* write: the next statements of two workers touch the same map.
AttrWriters == {"setLimit", "setOffset"}
AttrAccessors == {"setLimit", "setOffset", "send"}
BlocksWriters == {"setBlock"}
BlocksAccessors == {"copy", "setBlock", "send"}

MapRace ==
    \E r \in Running, v \in Running :
        /\ r # v \/ CopiesIn(r, pool) > 1
        /\ \/ r.pc \in AttrWriters /\ v.pc \in AttrAccessors
           \/ r.pc \in BlocksWriters /\ v.pc \in BlocksAccessors

\* the runtime detects the concurrent map access and aborts the process
\* ("fatal error: concurrent map writes"); detection is best effort, so the
\* accesses may as well go through one after the other (the actions above)
RaceFatal ==
    /\ Alive
    /\ MapRace
    /\ fatal' = TRUE
    /\ UNCHANGED <<cfgVars, cancelled, attr, ctlVars, chanVars, popVars, pool,
                   sinkVars, histVars>>

\* ------------------------------------------------- result handling goroutine
\* the rows one PageResult adds to the file
RowsOf(r) == [i \in 1 .. Len(r.Rows) |-> [page |-> r.PageNum, row |-> r.Rows[i]]]

\* variant: the sink keeps the file ordered by page number
SinkRecvByPageNumber ==
    /\ Alive
    /\ sinkPc = "run"
    /\ results # <<>>
    /\ results' = Tail(results)
    /\ IF Head(results).Err
       THEN /\ failLines' = failLines + 1
            /\ UNCHANGED <<written, totalRows>>
       ELSE /\ LET Before(w) == w.page < Head(results).PageNum
                   After(w) == w.page >= Head(results).PageNum
               IN written' = SelectSeq(written, Before)
                                 \o RowsOf(Head(results))
                                 \o SelectSeq(written, After)
            /\ totalRows' = totalRows + Len(Head(results).Rows)
            /\ failLines' = failLines
    /\ UNCHANGED <<cfgVars, cancelled, attr, ctlVars, tasks, tasksClosed,
                   resultsClosed, popVars, pool, sinkPc, histVars, fatal>>

\* for result := range results (one PageResult handled)
SinkRecv ==
    /\ Alive
    /\ sinkPc = "run"
    /\ results # <<>>
    /\ results' = Tail(results)
    /\ IF Head(results).Err
       THEN /\ failLines' = failLines + 1
            /\ UNCHANGED <<written, totalRows>>
       ELSE /\ written' = written \o RowsOf(Head(results))
            /\ totalRows' = totalRows + Len(Head(results).Rows)
            /\ failLines' = failLines
    /\ UNCHANGED <<cfgVars, cancelled, attr, ctlVars, tasks, tasksClosed,
                   resultsClosed, popVars, pool, sinkPc, histVars, fatal>>

\* results is closed and drained: writeWg.Done()
SinkDone ==
    /\ Alive
    /\ sinkPc = "run"
    /\ results = <<>>
    /\ resultsClosed
    /\ sinkPc' = "done"
    /\ UNCHANGED <<cfgVars, cancelled, attr, ctlVars, chanVars, popVars,
                   pool, written, totalRows, failLines, histVars, fatal>>

FetchOutcomes == {"ok", "err", "noblock"}

Next ==
    \/ Cancel
    \/ Prime
    \/ \E o \in FetchOutcomes : PrimeFetch(o)
    \/ Plan
    \/ \E ok \in BOOLEAN : CreateFile(ok)
    \/ Start
    \/ CloseResults
    \/ Return
    \/ MainExit
    \/ PopSend
    \/ PopCancel
    \/ PopClose
    \/ \E r \in Running : WorkerRecv(r)
    \/ \E r \in Running : WorkerExit(r)
    \/ \E r \in Running : WorkerCheck(r)
    \/ \E r \in Running : WorkerCopy(r)
    \/ \E r \in Running : WorkerSetLimit(r)
    \/ \E r \in Running : WorkerSetOffset(r)
    \/ \E r \in Running : WorkerSetBlock(r)
    \/ \E r \in Running : WorkerSend(r)
    \/ \E r \in Running, o \in FetchOutcomes : WorkerAwait(r, o)
    \/ \E r \in Running : WorkerEmit(r)
    \/ \E r \in Running : WorkerSleep(r)
    \/ RaceFatal
    \/ SinkRecv
    \/ SinkDone

Spec == Init /\ [][Next]_vars

\* ------------------------------------------------- the sink's cell coercion
\* A string is a sequence of characters.  A cell is what encoding/json puts
\* into an interface{}: nil, a string or a float64 (here a small natural).
\* (field s holds the value of a string, field n the value of a number)
Null == [kind |-> "nil", s |-> <<>>, n |-> 0]
StrCell(s) == [kind |-> "string", s |-> s, n |-> 0]
NumCell(n) == [kind |-> "float64", s |-> <<>>, n |-> n]

Digit(d) == <<"0", "1", "2", "3", "4", "5", "6", "7", "8", "9">>[d + 1]

RECURSIVE Digits(_)
Digits(n) == IF n < 10 THEN <<Digit(n)>>
             ELSE Digits(n \div 10) \o <<Digit(n % 10)>>

\* fmt's %v of a non-nil cell: a string as it is, a whole float64 in digits
FormatV(cell) == IF cell.kind = "string" THEN cell.s ELSE Digits(cell.n)

\* strRow[i] for one cell
CellString(cell) ==
    IF cell = Null THEN <<"\t">> ELSE <<"\t">> \o FormatV(cell)

\* strRow for one row, as handed to writer.Write
StrRow(row) == [i \in 1 .. Len(row) |-> CellString(row[i])]

Cells == {Null, StrCell(<<>>), StrCell(<<"a">>), StrCell(<<"7">>), NumCell(7)}

Records == UNION {[1 .. n -> Cells] : n \in 1 .. MaxCells}

\* The sink with one successful one-row PageResult left on the closed results
\* channel; the row is a record of cells.
CellInit ==
    /\ serverCount = 1
    /\ pageSize = 1
    /\ maxWorkers = 1
    /\ cancelled = FALSE
    /\ attr = [limit |-> 1, offset |-> 0]
    /\ ctl = "waitSink"
    /\ totalCount = 1
    /\ totalPages = 1
    /\ fileCreated = TRUE
    /\ tasks = <<>>
    /\ tasksClosed = TRUE
    /\ page = 1
    /\ popPc = "closed"
    /\ \E rec \in Records :
           results = <<[PageNum |-> 1, Rows |-> <<rec>>, Err |-> FALSE]>>
    /\ resultsClosed = TRUE
    /\ pool = SetToBag({[NewWorker EXCEPT !.pc = "exited"]})
    /\ sinkPc = "run"
    /\ written = <<>>
    /\ totalRows = 0
    /\ failLines = 0
    /\ retRows = 0
    /\ summary = "none"
    /\ report = "none"
    /\ primeRes = "ok"
    /\ countReads = 1
    /\ fatal = FALSE
    /\ enq = <<1>>
    /\ pulls = [p \in PageNums |-> IF p = 1 THEN 1 ELSE 0]
    /\ calls = [p \in PageNums |-> IF p = 1 THEN 1 ELSE 0]
    /\ sent = [o \in Offsets |-> IF o = 0 THEN 1 ELSE 0]
    /\ dropped = {}
    /\ outcome = [p \in PageNums |-> IF p = 1 THEN "ok" ELSE "none"]
    /\ emitRows = 1

\* for result := range results, with the rows coerced cell by cell
SinkWriteCells ==
    /\ Alive
    /\ sinkPc = "run"
    /\ results # <<>>
    /\ results' = Tail(results)
    /\ IF Head(results).Err
       THEN /\ failLines' = failLines + 1
            /\ UNCHANGED <<written, totalRows>>
       ELSE /\ written' = written \o [i \in 1 .. Len(Head(results).Rows) |->
                                        StrRow(Head(results).Rows[i])]
            /\ totalRows' = totalRows + Len(Head(results).Rows)
            /\ failLines' = failLines
    /\ UNCHANGED <<cfgVars, cancelled, attr, ctlVars, tasks, tasksClosed,
                   resultsClosed, popVars, pool, sinkPc, histVars, fatal>>

CellNext ==
    \/ SinkWriteCells
    \/ SinkDone

CellSpec == CellInit /\ [][CellNext]_vars


\* ====================================================================
\* Properties
\* ====================================================================
\* number of workers at position pc
PcCount(b, pc) ==
    LET at == {r \in BagToSet(b) : r.pc = pc}
        RECURSIVE Sum(_)
        Sum(S) == IF S = {} THEN 0
                  ELSE LET x == CHOOSE y \in S : TRUE
                       IN CopiesIn(x, b) + Sum(S \ {x})
    IN Sum(at)

\* the run is over: FetchAllDataMultithread returned after the pipeline ran
RunOver == summary # "none"

\* the descriptors of the plan
Planned == 1 .. totalPages

\* C1: every request a worker sends carries limit = pageSize and the offset
\* of the descriptor that this worker pulled (stated as the claim states it;
\* the shared attribute map lets another worker overwrite the offset between
\* the assignment and json.Marshal).
C1_RequestCarriesOwnOffset ==
    \A r \in Running :
        r.pc = "await" => r.req.limit = pageSize /\ r.req.offset = r.task.offset

\* C2: a run that is not cancelled and in which every page fetch succeeds
\* writes exactly totalCount rows and reports no failed page (stated as the
\* claim states it; it fails through the overwritten offsets of C1).
C2_AllRowsWritten ==
    (summary = "completed" /\ \A p \in Planned : outcome[p] = "ok")
        => totalRows = totalCount /\ failLines = 0

\* ceil(a / b), defined without the code's formula
CeilDiv(a, b) == CHOOSE n \in 0 .. a : n * b >= a /\ (n = 0 \/ (n - 1) * b < a)

\* C3: totalPages = ceil(totalCount / pageSize); the descriptors are enqueued
\* in ascending page-number order with page numbers 1, 2, ... and offsets
\* 0, pageSize, 2*pageSize, ...; when the population loop runs to its end
\* they are exactly the totalPages descriptors of the plan, without gap or
\* duplicate.
C3_PagePlan ==
    /\ ctl \in {"create", "start", "wait", "waitSink"}
          => totalPages = CeilDiv(totalCount, pageSize)
    /\ Len(enq) <= totalPages
    /\ \A i \in 1 .. Len(enq) :
          enq[i].pageNum = i /\ enq[i].offset = (i - 1) * pageSize
    /\ popPc = "closed" =>
          /\ Len(enq) = CeilDiv(totalCount, pageSize)
          /\ {enq[i].offset : i \in 1 .. Len(enq)}
                = {k * pageSize : k \in 0 .. (totalPages - 1)}
          /\ Cardinality({enq[i].offset : i \in 1 .. Len(enq)}) = totalPages

\* C3 witness: a plan of two pages whose last page is partial was enqueued
C3_Witness ==
    popPc = "closed" /\ totalCount = 3 /\ pageSize = 2 /\ Len(enq) = 2

\* C4: no descriptor is delivered to more than one worker
C4_AtMostOneReceiver ==
    /\ \A p \in PageNums : pulls[p] <= 1
    /\ \A r \in Running :
          r.task # NoTask =>
              /\ CopiesIn(r, pool) = 1
              /\ \A v \in Running : v # r => v.task.pageNum # r.task.pageNum

\* C4 witness: two workers hold descriptors at the same time
C4_Witness ==
    \E r \in Running, v \in Running :
        r.task.pageNum = 1 /\ v.task.pageNum = 2 /\ pulls[1] = 1 /\ pulls[2] = 1

\* C5: the caller's template keeps its limit and offset (stated as the claim
\* states it; the priming call already writes through the shared map)
C5_TemplateUnchanged ==
    attr.limit = BaseLimit /\ attr.offset = BaseOffset


\* C6: a descriptor is never enqueued twice nor fetched twice, and at the
\* end of a run that was not cancelled every planned descriptor was pulled
\* once and fetched once, whichever of the fetches failed.
C6_EveryDescriptorFetchedOnce ==
    /\ \A p \in PageNums :
          /\ calls[p] <= 1
          /\ Cardinality({i \in 1 .. Len(enq) : enq[i].pageNum = p}) <= 1
    /\ summary = "completed" =>
          \A p \in Planned : pulls[p] = 1 /\ calls[p] = 1 /\ outcome[p] # "none"

\* C6 witness: the only worker failed on page 1 and still fetched page 2
C6_Witness ==
    /\ summary = "completed"
    /\ maxWorkers = 1
    /\ totalPages = 2
    /\ outcome[1] = "err"
    /\ outcome[2] = "ok"
    /\ calls[2] = 1

\* C7: at the end of every run at most totalCount rows were written (stated
\* as the claim states it; it fails through the overwritten offsets of C1).
C7_RowsAtMostTotal ==
    RunOver => totalRows <= totalCount

\* C8: a worker that finds ctx done at its check exits at that step: no
\* fetchData call, no request, no PageResult; an exited worker stays exited;
\* a dropped descriptor is never fetched.
C8_NoFetchAfterCancelObserved ==
    /\ [](\A p \in dropped : calls[p] = 0 /\ outcome[p] = "none")
    /\ [][(cancelled /\ PcCount(pool', "check") < PcCount(pool, "check"))
            => /\ PcCount(pool', "exited") = PcCount(pool, "exited") + 1
               /\ Cardinality(dropped') = Cardinality(dropped) + 1
               /\ calls' = calls
               /\ sent' = sent
               /\ results' = results]_vars
    /\ [][PcCount(pool', "exited") >= PcCount(pool, "exited")]_vars

\* C8 witness: a worker dropped the descriptor it had pulled
C8_Witness ==
    /\ cancelled
    /\ dropped # {}
    /\ PcCount(pool, "exited") >= 1

\* C9 as stated: when the populator stopped on the cancellation signal,
\* every descriptor it had enqueued is fetched by the end of the run.
C9_EnqueuedAllFetched ==
    (popPc = "stopped" /\ RunOver)
        => \A i \in 1 .. Len(enq) : calls[enq[i].pageNum] = 1

\* number of workers that hold descriptor p and have not yet called fetchData
Holding(p) ==
    Cardinality({r \in Running :
        r.task.pageNum = p
        /\ r.pc \in {"check", "copy", "setLimit", "setOffset", "setBlock", "send"}})

\* number of times descriptor p is in the task queue
Queued(p) == Cardinality({i \in 1 .. Len(tasks) : tasks[i].pageNum = p})

\* C9 amended: closing the task queue removes none of the descriptors that
\* are in it, and every enqueued descriptor is in exactly one place: still
\* queued, in the hands of one worker, fetched once, or dropped by a worker
\* that found the cancellation signal set (descriptors are dropped only
\* after cancellation).
C9_ClosedQueueKeepsDescriptors ==
    /\ [][(tasksClosed' /\ ~tasksClosed) => tasks' = tasks]_vars
    /\ [](\A i \in 1 .. Len(enq) :
            LET p == enq[i].pageNum
            IN Queued(p) + Holding(p) + calls[p]
                 + (IF p \in dropped THEN 1 ELSE 0) = 1)
    /\ [](dropped # {} => cancelled)

\* C9 witness: the populator stopped on the signal, the descriptor it had
\* enqueued was pulled afterwards and dropped
C9_Witness ==
    /\ popPc = "stopped"
    /\ tasksClosed
    /\ Len(enq) = 1
    /\ dropped = {1}

\* C10 as stated: no reachable state is a deadlock: in every state the
\* process has ended by main returning or some step is possible.
C10_NoDeadlock ==
    ctl = "exited" \/ ENABLED Next

\* nothing of the pipeline exists and no page was requested
NoPipeline ==
    /\ ~fileCreated
    /\ totalPages = 0
    /\ enq = <<>> /\ tasks = <<>> /\ page = 0
    /\ pool = EmptyBag
    /\ popPc = "idle" /\ sinkPc = "idle"
    /\ \A p \in PageNums : pulls[p] = 0 /\ calls[p] = 0 /\ sent[p] = 0
    /\ written = <<>> /\ totalRows = 0
    /\ summary = "none"

\* C11: when the priming call fails (transport error or a response without
\* the "result" block) the run ends as failed: no file is created, no
\* descriptor is generated, no worker or sink is started and no further fetch
\* is issued.
C11_PrimingFailureStopsRun ==
    primeRes \in {"err", "noblock"} =>
        /\ ctl \in {"failed", "exited"}
        /\ report \in {"none", "failed"}
        /\ ctl = "exited" => report = "failed"
        /\ NoPipeline

C11_Witness ==
    /\ primeRes = "noblock"
    /\ ctl = "exited"
    /\ report = "failed"

\* C12: when the priming call reports a total count of 0 the run returns
\* 0 rows without an error: no page is planned, no queue is filled, no worker
\* is started and no fetch other than the priming call is issued.
C12_ZeroCountReturnsEmpty ==
    (primeRes = "ok" /\ serverCount = 0) =>
        /\ ctl \in {"returned", "exited"}
        /\ totalCount = 0
        /\ retRows = 0
        /\ report \in {"none", "noData"}
        /\ NoPipeline

C12_Witness ==
    /\ primeRes = "ok"
    /\ serverCount = 0
    /\ ctl = "exited"
    /\ report = "noData"
    /\ retRows = 0

\* the positions of a record that hold null
NullMask(rec) == {i \in 1 .. Len(rec) : rec[i] = Null}

\* C13: the coercion keeps a null cell distinguishable from an empty-string
\* cell: reading a written row back recovers which cells of the record were
\* null, i.e. all records that are written as that row have null in the same
\* positions.
C13_NullCellsRecoverable ==
    \A k \in 1 .. Len(written) :
        \A r1, r2 \in Records :
            (StrRow(r1) = written[k] /\ StrRow(r2) = written[k])
                => NullMask(r1) = NullMask(r2)

\* the pages whose fetch did not deliver the rows of a "result" block
NotDelivered == {p \in PageNums : outcome[p] \in {"err", "noblock"}}

\* C14: a page that does not deliver its rows (fetch error, or a response
\* without the "result" block) is reported by the sink as a failed page,
\* unless the run is reported as cancelled: at the end of a run reported as
\* completed the sink has printed one failure line per such page.
C14_FailedPagesReported ==
    summary = "completed" => failLines = Cardinality(NotDelivered)

\* the pages whose fetchData call returned an error
ErrPages == {p \in PageNums : outcome[p] = "err"}

\* the error PageResults waiting on the results channel
ErrQueued == Cardinality({i \in DOMAIN results : results[i].Err})

\* every failed fetch has exactly one error PageResult, tagged with the page
\* number of its descriptor: about to be sent, on the channel, or reported
OneErrorResultPerFailure ==
    /\ PcCount(pool, "emitErr") + ErrQueued + failLines = Cardinality(ErrPages)
    /\ \A r \in Running :
          r.pc = "emitErr" =>
              /\ r.res = [PageNum |-> r.task.pageNum, Rows |-> <<>>,
                          Err |-> TRUE]
              /\ outcome[r.task.pageNum] = "err"
    /\ \A i, j \in DOMAIN results :
          results[i].Err =>
              /\ outcome[results[i].PageNum] = "err"
              /\ results[i].Rows = <<>>
              /\ (results[j].PageNum = results[i].PageNum => i = j)
              /\ \A r \in Running : r.task.pageNum # results[i].PageNum

\* once the pipeline runs the function returns no error, and what it returns
\* is the row counter
NoRunLevelFailure ==
    /\ sinkPc # "idle" =>
          /\ ctl \in {"wait", "waitSink", "returned", "exited"}
          /\ report # "failed"
    /\ RunOver =>
          /\ summary \in {"completed", "interrupted"}
          /\ retRows = totalRows
          /\ retRows = Len(written)

\* the sink takes an error PageResult off the channel: a failure line, no
\* row, no change of the row counter
SinkSkipsErrorResult ==
    (results # <<>> /\ Head(results).Err /\ results' = Tail(results)) =>
        /\ failLines' = failLines + 1
        /\ written' = written
        /\ totalRows' = totalRows

\* C15: a page-level failure never becomes a run-level failure: each failed
\* worker fetch yields exactly one error PageResult tagged with its page
\* number, the sink consumes it without writing a row or changing the row
\* counter, and a run that ends ends as completed or interrupted and returns
\* its row count; once the pipeline runs, the error return is unreachable.
C15_PageFailureStaysPageLevel ==
    /\ [](OneErrorResultPerFailure /\ NoRunLevelFailure)
    /\ [][SinkSkipsErrorResult]_vars

C15_Witness ==
    /\ summary = "completed"
    /\ failLines >= 1
    /\ ErrPages # {}
    /\ retRows >= 1
    /\ ctl = "exited"

\* the step that prints the summary line of FetchAllDataMultithread
SummaryFollowsCancel ==
    (summary = "none" /\ summary' # "none") =>
        /\ summary' = IF cancelled THEN "interrupted" ELSE "completed"
        /\ retRows' = totalRows

\* C16: if the cancellation signal fires after planning and before the
\* summary is produced, what the program reports at its end is the interrupted
\* outcome with the partial row count, never the completed outcome; without a
\* cancellation signal the summary reports the completed outcome.  Both the
\* summary line of FetchAllDataMultithread and the final report of main are
\* held to it.
C16_CancelledRunReportedInterrupted ==
    /\ [][SummaryFollowsCancel]_vars
    /\ [](summary = "interrupted" => report # "allDone")

\* C17: after every page fetch, whether it succeeded or failed, the worker
\* sleeps the pacing delay before it pulls the next descriptor: a worker comes
\* to the receive on the task queue only when it is started or from
\* time.Sleep, never directly from sending a PageResult.
C17_SleepBeforeNextPull ==
    [][PcCount(pool', "recv") > PcCount(pool, "recv") =>
           \/ pool = EmptyBag
           \/ PcCount(pool', "sleep") < PcCount(pool, "sleep")]_vars

RECURSIVE RowsIn(_)
\* the rows of the successful PageResults in a sequence of PageResults
RowsIn(q) ==
    IF q = <<>> THEN 0
    ELSE (IF Head(q).Err THEN 0 ELSE Len(Head(q).Rows)) + RowsIn(Tail(q))

\* C18: every PageResult a worker emitted is consumed by the sink before the
\* run returns, also after cancellation, and the row counter is read only
\* after the sink has finished: the rows emitted are on the channel or
\* counted, and when the function has returned no worker can emit, the
\* channel is empty, the sink is done and the row count returned is the sum
\* of the row counts of the successful PageResults emitted.
C18_ReturnCountsAllEmitted ==
    /\ totalRows + RowsIn(results) = emitRows
    /\ totalRows = Len(written)
    /\ RunOver =>
          /\ \A r \in Running : r.pc = "exited"
          /\ resultsClosed
          /\ results = <<>>
          /\ sinkPc = "done"
          /\ retRows = totalRows
          /\ retRows = emitRows

C18_Witness ==
    /\ summary = "interrupted"
    /\ dropped # {}
    /\ retRows >= 1
    /\ retRows = emitRows

\* in the file the rows of one page form one block, in response order (the
\* endpoint returns consecutive rows in ascending order)
PageBlocks ==
    /\ \A i, j, k \in DOMAIN written :
          (i < j /\ j < k /\ written[i].page = written[k].page)
              => written[j].page = written[i].page
    /\ \A i, j \in DOMAIN written :
          (j = i + 1 /\ written[i].page = written[j].page)
              => written[j].row = written[i].row + 1

\* the sink's step on a successful PageResult appends its rows, in their
\* order, to the end of the file
SinkAppendsInReceiptOrder ==
    (results # <<>> /\ ~Head(results).Err /\ results' = Tail(results)) =>
        /\ Len(written') = Len(written) + Len(Head(results).Rows)
        /\ SubSeq(written', 1, Len(written)) = written
        /\ \A i \in 1 .. Len(Head(results).Rows) :
              written'[Len(written) + i] =
                  [page |-> Head(results).PageNum, row |-> Head(results).Rows[i]]

\* C19: the output row order is the order in which the sink receives the
\* PageResults: the rows of one page are written as one contiguous block in
\* response order, rows of different pages never interleave, and the sink
\* does not resequence pages by page number.
C19_RowsInReceiptOrder ==
    /\ []PageBlocks
    /\ [][SinkAppendsInReceiptOrder]_vars

\* with two workers a page with a higher number is written before a page
\* with a lower number
C19_Witness ==
    /\ RunOver
    /\ maxWorkers >= 2
    /\ \E i, j \in DOMAIN written :
          i < j /\ written[i].page > written[j].page

\* the populator goroutine has returned
PopReturned == popPc \in {"stopped", "closed"}

CloseProtocolStep ==
    /\ tasksClosed =>
          /\ tasksClosed'
          /\ enq' = enq
          /\ Len(tasks') <= Len(tasks)
          /\ popPc' = popPc
    /\ tasksClosed' # tasksClosed => (popPc = "run" /\ PopReturned')
    /\ resultsClosed =>
          /\ resultsClosed'
          /\ Len(results') <= Len(results)
          /\ emitRows' = emitRows
          /\ pool' = pool
    /\ resultsClosed' # resultsClosed =>
          /\ ctl = "wait" /\ ctl' = "waitSink"
          /\ \A r \in Running : r.pc = "exited"

CloseProtocolState ==
    /\ tasksClosed <=> PopReturned
    /\ tasksClosed => page <= totalPages /\ Len(enq) = page
    /\ resultsClosed <=> ctl \in {"waitSink", "returned", "exited"}
                            /\ sinkPc # "idle"
    /\ resultsClosed => \A r \in Running : r.pc = "exited"
    /\ summary = "completed" => tasksClosed /\ resultsClosed
    /\ RunOver => resultsClosed

CountReadOnce ==
    /\ countReads <= 1
    /\ countReads = 0 => (totalCount = 0 /\ totalPages = 0 /\ enq = <<>>)
    /\ (totalPages > 0 \/ enq # <<>> \/ pool # EmptyBag) =>
          /\ countReads = 1
          /\ primeRes = "ok"
          /\ totalCount = serverCount

\* nothing reaches the sink before a worker fetch, and every written row
\* belongs to a page that a worker fetched successfully
PrimingRowsNotWritten ==
    /\ (\A p \in PageNums : calls[p] = 0) => (results = <<>> /\ written = <<>>)
    /\ \A i \in DOMAIN written :
          /\ calls[written[i].page] >= 1
          /\ outcome[written[i].page] = "ok"

\* the worker that pulled page 1 holds offset 0 and requests offset 0
PageOneRequestsOffsetZero ==
    \A r \in Running :
        r.task.pageNum = 1 =>
            /\ r.task.offset = 0
            /\ r.pc = "await" => r.req.offset = 0

\* C21: totalCount is read exactly once, from the priming response, before
\* any descriptor exists, and is never updated from later page responses; the
\* rows of the priming response are never passed to the sink, so every
\* written row comes from a worker fetch, and offset 0 is requested again by
\* the worker that pulls page 1.
C21_CountOncePrimingRowsRefetched ==
    /\ CountReadOnce
    /\ PrimingRowsNotWritten
    /\ PageOneRequestsOffsetZero

====
